---- MODULE Spec2Model ----
(***************************************************************************)
(* Model of the guillotine / MaxRects cutting optimizer                    *)
(* (src/unnamed/part_002: optimize, optimizeSinglePanel,                   *)
(* tryPlaceInExistingPanel and the free-rectangle registry).               *)
(*                                                                         *)
(* Scores are kept as integers: every score of the code has the form       *)
(* n + leftoverArea / 1000 with n an integer, so the model stores          *)
(* 1000 * score = 1000 * n + leftoverArea.  For the dimensions explored    *)
(* here the double arithmetic of the code is exact enough that comparing   *)
(* the scaled integers gives the same answer as comparing the doubles.     *)
(***************************************************************************)
EXTENDS Integers, Sequences, FiniteSets, TLC

\* ---------------------------------------------------------------- bounds
MaxDim == 3        \* panel and piece dimensions range over 1..MaxDim
MaxQty == 2        \* quantity of a piece type ranges over 1..MaxQty
MaxTypes == 2      \* number of piece types in the input
MaxWaste == 2      \* minWasteSize is 0 or MaxWaste

VARIABLES
  panelWidth, panelHeight, pieces, minWasteSize, poignetEnabled, \* arguments of optimize
  panels,                  \* optimize: panels
  remainingPieces,         \* optimize: remainingPieces
  panelIndex,              \* optimize: panelIndex
  piecesPlacedInAnyPanel,  \* optimize: flag of the outer iteration
  previousRemainingCount,  \* optimize: remaining count at the start of the outer iteration
  madeProgress,            \* optimize: flag of the back-fill while loop
  panelIdx,                \* optimize: index of the back-fill for loop
  pass,                    \* locals of the running optimizeSinglePanel / tryPlaceInExistingPanel
  pc,                      \* position in optimize
  backfilled,              \* history: indices of the panels a back-fill pass has replaced
  probe                    \* arguments and result of one call of a registry or strategy function

vars == <<panelWidth, panelHeight, pieces, minWasteSize, poignetEnabled, panels,
          remainingPieces, panelIndex, piecesPlacedInAnyPanel, previousRemainingCount,
          madeProgress, panelIdx, pass, pc, backfilled, probe>>

\* ------------------------------------------------------------ geometry
Min(a, b) == IF a < b THEN a ELSE b
Max(a, b) == IF a > b THEN a ELSE b

Rectangle(x, y, width, height) == [x |-> x, y |-> y, width |-> width, height |-> height]

getArea(r) == r.width * r.height

\* canContain with the height test left out.
canContain_WidthOnly(r, width, height) == r.width >= width

canContain(r, width, height) == r.width >= width /\ r.height >= height

overlaps(a, b) ==
  ~( \/ a.x + a.width <= b.x
     \/ b.x + b.width <= a.x
     \/ a.y + a.height <= b.y
     \/ b.y + b.height <= a.y )

Piece(width, height, id, rotationAllowed, pieceTypeId) ==
  [width |-> width, height |-> height, id |-> id,
   rotationAllowed |-> rotationAllowed, pieceTypeId |-> pieceTypeId]

PlacedRectangle(x, y, width, height, pieceId, pieceTypeId, rotated, pIndex) ==
  [x |-> x, y |-> y, width |-> width, height |-> height, pieceId |-> pieceId,
   pieceTypeId |-> pieceTypeId, rotated |-> rotated, panelIndex |-> pIndex]

\* The Rectangle part of a placement (the code passes a PlacedRectangle where a
\* Rectangle is expected and reads only x, y, width, height).
AsRect(p) == Rectangle(p.x, p.y, p.width, p.height)

\* ------------------------------------------------- expansion and sorting
\* The id `piece-${id}` of an expanded piece is kept as the number id.
RECURSIVE ExpandFrom(_, _, _, _, _)
ExpandFrom(types, t, i, id, expanded) ==
  IF t > Len(types) THEN expanded
  ELSE IF i >= types[t].quantity THEN ExpandFrom(types, t + 1, 0, id, expanded)
  ELSE ExpandFrom(types, t, i + 1, id + 1,
         Append(expanded, Piece(types[t].width, types[t].height, id,
                                types[t].rotationAllowed, types[t].id)))

expandPieces(types) == ExpandFrom(types, 1, 0, 0, <<>>)

\* Insertion that puts p before the elements of equal area: a sort that is not stable.
RECURSIVE InsertByArea_Unstable(_, _)
InsertByArea_Unstable(sorted, p) ==
  IF sorted = <<>> THEN <<p>>
  ELSE IF getArea(Head(sorted)) > getArea(p)
       THEN <<Head(sorted)>> \o InsertByArea_Unstable(Tail(sorted), p)
       ELSE <<p>> \o sorted

\* Stable insertion of p into a sequence sorted by descending area: p goes
\* after every element whose area is >= its own (Array.prototype.sort is stable).
RECURSIVE InsertByArea(_, _)
InsertByArea(sorted, p) ==
  IF sorted = <<>> THEN <<p>>
  ELSE IF getArea(Head(sorted)) >= getArea(p)
       THEN <<Head(sorted)>> \o InsertByArea(Tail(sorted), p)
       ELSE <<p>> \o sorted

RECURSIVE SortFrom(_, _, _)
SortFrom(ps, i, sorted) ==
  IF i > Len(ps) THEN sorted ELSE SortFrom(ps, i + 1, InsertByArea(sorted, ps[i]))

sortPiecesByArea(ps) == SortFrom(ps, 1, <<>>)

\* -------------------------------------------------- placement strategies
NoRect == Rectangle(0, 0, 0, 0)
NoFit == [found |-> FALSE, rect |-> NoRect, score |-> 0, row |-> "none", sourceIdx |-> 0]

\* 1000 * positionScore of findBestFit
FreeScore(rect, width, height) ==
  rect.y * 100000000 + rect.x * 100000 + (getArea(rect) - width * height)

RECURSIVE BestFitScan(_, _, _, _, _)
BestFitScan(freeRects, width, height, i, best) ==
  IF i > Len(freeRects) THEN best
  ELSE LET rect == freeRects[i]
           positionScore == FreeScore(rect, width, height)
       IN IF canContain(rect, width, height)
             /\ (~best.found \/ positionScore < best.score)
          THEN BestFitScan(freeRects, width, height, i + 1,
                 [found |-> TRUE, rect |-> rect, score |-> positionScore,
                  row |-> "none", sourceIdx |-> i])
          ELSE BestFitScan(freeRects, width, height, i + 1, best)

\* bestFit.rect is the chosen free rectangle itself; sourceIdx is its position
\* in freeRects (the object the code later looks up with indexOf).
findBestFit(freeRects, width, height) == BestFitScan(freeRects, width, height, 1, NoFit)

\* One row of findBestFitPoignet: rowY is the y of the row, rowX its cursor,
\* seqBase / flexBase are 1000 * the constant added to the score.
RECURSIVE PoignetRowScan(_, _, _, _, _, _, _, _, _, _, _)
PoignetRowScan(freeRects, width, height, pw, rowY, rowX, rowName, seqBase, flexBase, i, best) ==
  IF i > Len(freeRects) THEN best
  ELSE
    LET rect == freeRects[i]
        coversRow == rect.y <= rowY /\ rect.y + rect.height >= rowY + height
        leftoverArea == getArea(rect) - width * height
        placeX == Max(rect.x, rowX)
        cand ==
          IF coversRow /\ canContain(rect, width, height)
          THEN IF rect.x <= rowX /\ rect.x + rect.width >= rowX + width
               THEN [ok |-> TRUE, x |-> rowX, score |-> seqBase + rowX * 100000 + leftoverArea]
               ELSE IF rect.x + width <= pw
                       /\ placeX + width <= rect.x + rect.width
                       /\ placeX + width <= pw
                    THEN [ok |-> TRUE, x |-> placeX,
                          score |-> flexBase + placeX * 100000 + leftoverArea]
                    ELSE [ok |-> FALSE, x |-> 0, score |-> 0]
          ELSE [ok |-> FALSE, x |-> 0, score |-> 0]
    IN IF cand.ok /\ (~best.found \/ cand.score < best.score)
       THEN PoignetRowScan(freeRects, width, height, pw, rowY, rowX, rowName, seqBase,
              flexBase, i + 1,
              [found |-> TRUE, rect |-> Rectangle(cand.x, rowY, width, height),
               score |-> cand.score, row |-> rowName, sourceIdx |-> i])
       ELSE PoignetRowScan(freeRects, width, height, pw, rowY, rowX, rowName, seqBase,
              flexBase, i + 1, best)

findBestFitPoignet(freeRects, width, height, ph, topRowX, bottomRowX, pw) ==
  IF height > ph THEN NoFit
  ELSE IF width > pw THEN NoFit
  ELSE
    LET top == IF topRowX + width <= pw
               THEN PoignetRowScan(freeRects, width, height, pw, 0, topRowX, "top",
                                   0, 10000000, 1, NoFit)
               ELSE NoFit
    IN IF ~top.found /\ bottomRowX + width <= pw
       THEN PoignetRowScan(freeRects, width, height, pw, ph - height, bottomRowX, "bottom",
                           100000000, 110000000, 1, top)
       ELSE top

\* splitRectangle with a bottom strip as wide as the free rectangle's part from
\* the placement's left edge on, so that it runs under the right strip.
splitRectangle_WideBottom(freeRect, placedX, placedY, placedWidth, placedHeight, mws) ==
  LET rightWidth == freeRect.x + freeRect.width - (placedX + placedWidth)
      bottomHeight == freeRect.y + freeRect.height - (placedY + placedHeight)
      right == IF rightWidth > 0 /\ freeRect.height > 0
                  /\ (rightWidth >= mws \/ freeRect.height >= mws)
               THEN <<Rectangle(placedX + placedWidth, freeRect.y, rightWidth, freeRect.height)>>
               ELSE <<>>
      bottom == IF bottomHeight > 0 /\ placedWidth > 0
                   /\ (placedWidth >= mws \/ bottomHeight >= mws)
                THEN <<Rectangle(placedX, placedY + placedHeight,
                                 placedWidth + rightWidth, bottomHeight)>>
                ELSE <<>>
  IN right \o bottom

\* ------------------------------------------------- free-region registry
splitRectangle(freeRect, placedX, placedY, placedWidth, placedHeight, mws) ==
  LET rightWidth == freeRect.x + freeRect.width - (placedX + placedWidth)
      bottomHeight == freeRect.y + freeRect.height - (placedY + placedHeight)
      leftWidth == placedX - freeRect.x
      right == IF rightWidth > 0 /\ freeRect.height > 0
                  /\ (rightWidth >= mws \/ freeRect.height >= mws)
               THEN <<Rectangle(placedX + placedWidth, freeRect.y, rightWidth, freeRect.height)>>
               ELSE <<>>
      bottom == IF bottomHeight > 0 /\ placedWidth > 0
                   /\ (placedWidth >= mws \/ bottomHeight >= mws)
                THEN <<Rectangle(placedX, placedY + placedHeight, placedWidth, bottomHeight)>>
                ELSE <<>>
      corner == IF leftWidth > 0 /\ bottomHeight > 0
                   /\ (leftWidth >= mws \/ bottomHeight >= mws)
                THEN <<Rectangle(freeRect.x, placedY + placedHeight, leftWidth, bottomHeight)>>
                ELSE <<>>
  IN right \o bottom \o corner

isUsefulSize(width, height, mws) == width >= mws /\ height >= mws

\* removeOverlappingFreeRects keeping an overlapping free rectangle as it is.
SubtractOne_KeepOverlapping(freeRect, placedRect, mws) ==
  IF isUsefulSize(freeRect.width, freeRect.height, mws) THEN <<freeRect>> ELSE <<>>

\* What removeOverlappingFreeRects pushes for one free rectangle.
SubtractOne(freeRect, placedRect, mws) ==
  IF ~overlaps(freeRect, AsRect(placedRect))
  THEN IF isUsefulSize(freeRect.width, freeRect.height, mws) THEN <<freeRect>> ELSE <<>>
  ELSE
    LET leftWidth == placedRect.x - freeRect.x
        rightX == placedRect.x + placedRect.width
        rightWidth == (freeRect.x + freeRect.width) - rightX
        topHeight == placedRect.y - freeRect.y
        bottomY == placedRect.y + placedRect.height
        bottomHeight == (freeRect.y + freeRect.height) - bottomY
        left == IF freeRect.x < placedRect.x /\ isUsefulSize(leftWidth, freeRect.height, mws)
                THEN <<Rectangle(freeRect.x, freeRect.y, leftWidth, freeRect.height)>>
                ELSE <<>>
        right == IF rightX < freeRect.x + freeRect.width
                    /\ isUsefulSize(rightWidth, freeRect.height, mws)
                 THEN <<Rectangle(rightX, freeRect.y, rightWidth, freeRect.height)>>
                 ELSE <<>>
        top == IF freeRect.y < placedRect.y /\ isUsefulSize(freeRect.width, topHeight, mws)
               THEN <<Rectangle(freeRect.x, freeRect.y, freeRect.width, topHeight)>>
               ELSE <<>>
        bottom == IF bottomY < freeRect.y + freeRect.height
                     /\ isUsefulSize(freeRect.width, bottomHeight, mws)
                  THEN <<Rectangle(freeRect.x, bottomY, freeRect.width, bottomHeight)>>
                  ELSE <<>>
    IN left \o right \o top \o bottom

RECURSIVE SubtractFrom(_, _, _, _, _)
SubtractFrom(freeRects, placedRect, mws, i, result) ==
  IF i > Len(freeRects) THEN result
  ELSE SubtractFrom(freeRects, placedRect, mws, i + 1,
                    result \o SubtractOne(freeRects[i], placedRect, mws))

removeOverlappingFreeRects(freeRects, placedRect, mws) ==
  SubtractFrom(freeRects, placedRect, mws, 1, <<>>)

\* The for-j loop of mergeRectangles: one scan of the rectangles after i.
RECURSIVE MergeScan(_, _, _, _, _)
MergeScan(freeRects, used, current, j, mergedAny) ==
  IF j > Len(freeRects)
  THEN [current |-> current, used |-> used, mergedAny |-> mergedAny]
  ELSE IF j \in used THEN MergeScan(freeRects, used, current, j + 1, mergedAny)
  ELSE
    LET other == freeRects[j] IN
    IF /\ current.height = other.height
       /\ current.y = other.y
       /\ (current.x + current.width = other.x \/ other.x + other.width = current.x)
    THEN LET minX == Min(current.x, other.x)
             maxX == Max(current.x + current.width, other.x + other.width)
         IN MergeScan(freeRects, used \cup {j},
                      Rectangle(minX, current.y, maxX - minX, current.height), j + 1, TRUE)
    ELSE IF /\ current.width = other.width
            /\ current.x = other.x
            /\ (current.y + current.height = other.y \/ other.y + other.height = current.y)
    THEN LET minY == Min(current.y, other.y)
             maxY == Max(current.y + current.height, other.y + other.height)
         IN MergeScan(freeRects, used \cup {j},
                      Rectangle(current.x, minY, current.width, maxY - minY), j + 1, TRUE)
    ELSE MergeScan(freeRects, used, current, j + 1, mergedAny)

\* while (mergedAny): repeat the scan until one finds nothing to merge.
RECURSIVE MergeWhile(_, _, _, _)
MergeWhile(freeRects, used, current, i) ==
  LET r == MergeScan(freeRects, used, current, i + 1, FALSE)
  IN IF r.mergedAny THEN MergeWhile(freeRects, r.used, r.current, i) ELSE r

RECURSIVE MergeFrom(_, _, _, _)
MergeFrom(freeRects, i, used, merged) ==
  IF i > Len(freeRects) THEN merged
  ELSE IF i \in used THEN MergeFrom(freeRects, i + 1, used, merged)
  ELSE LET r == MergeWhile(freeRects, used, freeRects[i], i)
       IN MergeFrom(freeRects, i + 1, r.used \cup {i}, Append(merged, r.current))

mergeRectangles(freeRects) == MergeFrom(freeRects, 1, {}, <<>>)

filterSmallRectangles(freeRects, mws) ==
  SelectSeq(freeRects, LAMBDA rect : rect.width >= mws /\ rect.height >= mws)

\* freeRects.splice(rectIndex, 1)
RemoveAt(s, i) == SubSeq(s, 1, i - 1) \o SubSeq(s, i + 1, Len(s))

\* ------------------------------------------ one piece on one panel
\* The choice of orientation with the rotated-only branch left out.
ChooseFit_NoRotatedOnly(fitOriginal, fitRotated) ==
  IF fitOriginal.found /\ fitRotated.found /\ fitRotated.score < fitOriginal.score
  THEN [bestFit |-> fitRotated, useRotated |-> TRUE]
  ELSE IF fitOriginal.found THEN [bestFit |-> fitOriginal, useRotated |-> FALSE]
  ELSE [bestFit |-> NoFit, useRotated |-> FALSE]

\* The choice between the original and the rotated orientation.
ChooseFit(fitOriginal, fitRotated) ==
  IF fitOriginal.found /\ fitRotated.found
  THEN IF fitRotated.score < fitOriginal.score
       THEN [bestFit |-> fitRotated, useRotated |-> TRUE]
       ELSE [bestFit |-> fitOriginal, useRotated |-> FALSE]
  ELSE IF fitOriginal.found THEN [bestFit |-> fitOriginal, useRotated |-> FALSE]
  ELSE IF fitRotated.found THEN [bestFit |-> fitRotated, useRotated |-> TRUE]
  ELSE [bestFit |-> NoFit, useRotated |-> FALSE]

\* fitOriginal / fitRotated with the rotated orientation tried for every piece.
FindFit_RotateAny(freeRects, piece, pw, ph, topRowX, bottomRowX, poignet) ==
  ChooseFit(IF poignet
            THEN findBestFitPoignet(freeRects, piece.width, piece.height, ph,
                                    topRowX, bottomRowX, pw)
            ELSE findBestFit(freeRects, piece.width, piece.height),
            IF poignet
            THEN findBestFitPoignet(freeRects, piece.height, piece.width, ph,
                                    topRowX, bottomRowX, pw)
            ELSE findBestFit(freeRects, piece.height, piece.width))

\* fitOriginal / fitRotated of the placement loops, then the choice.
FindFit(freeRects, piece, pw, ph, topRowX, bottomRowX, poignet) ==
  LET fitOriginal ==
        IF poignet
        THEN findBestFitPoignet(freeRects, piece.width, piece.height, ph, topRowX, bottomRowX, pw)
        ELSE findBestFit(freeRects, piece.width, piece.height)
      fitRotated ==
        IF ~piece.rotationAllowed THEN NoFit
        ELSE IF poignet
        THEN findBestFitPoignet(freeRects, piece.height, piece.width, ph, topRowX, bottomRowX, pw)
        ELSE findBestFit(freeRects, piece.height, piece.width)
  IN ChooseFit(fitOriginal, fitRotated)

\* The PlacedRectangle with the bottom-row y taken from the unrotated height.
MakePlacement_BottomUnrotated(c, piece, ph, pIndex, poignet) ==
  PlacedRectangle(c.bestFit.rect.x,
                  IF poignet /\ c.bestFit.row = "top" THEN 0
                  ELSE IF poignet /\ c.bestFit.row = "bottom" THEN ph - piece.height
                  ELSE c.bestFit.rect.y,
                  IF c.useRotated THEN piece.height ELSE piece.width,
                  IF c.useRotated THEN piece.width ELSE piece.height,
                  piece.id, piece.pieceTypeId, c.useRotated, pIndex)

\* The PlacedRectangle built from the chosen fit.
MakePlacement(c, piece, ph, pIndex, poignet) ==
  LET finalWidth == IF c.useRotated THEN piece.height ELSE piece.width
      finalHeight == IF c.useRotated THEN piece.width ELSE piece.height
      placeX == c.bestFit.rect.x
      placeY == IF poignet /\ c.bestFit.row = "top" THEN 0
                ELSE IF poignet /\ c.bestFit.row = "bottom" THEN ph - finalHeight
                ELSE c.bestFit.rect.y
  IN PlacedRectangle(placeX, placeY, finalWidth, finalHeight, piece.id, piece.pieceTypeId,
                     c.useRotated, pIndex)

\* Normal mode without the removal of the used rectangle and without the
\* subtraction of the placement: residuals pushed, merge, filter.
GuillotineUpdate_KeepUsed(freeRects, usedIdx, placedRect, mws) ==
  filterSmallRectangles(
    mergeRectangles(freeRects \o splitRectangle(freeRects[usedIdx], placedRect.x, placedRect.y,
                                                placedRect.width, placedRect.height, mws)),
    mws)

\* Normal mode: remove the used rectangle, push its guillotine residuals,
\* subtract the placement, merge, filter.
GuillotineUpdate(freeRects, usedIdx, placedRect, mws) ==
  LET usedFreeRect == freeRects[usedIdx]
      pushed == RemoveAt(freeRects, usedIdx)
                  \o splitRectangle(usedFreeRect, placedRect.x, placedRect.y,
                                    placedRect.width, placedRect.height, mws)
  IN filterSmallRectangles(
       mergeRectangles(removeOverlappingFreeRects(pushed, placedRect, mws)), mws)

\* Edge-aligned mode in optimizeSinglePanel: subtract, merge, filter.
PoignetUpdate(freeRects, placedRect, mws) ==
  filterSmallRectangles(
    mergeRectangles(removeOverlappingFreeRects(freeRects, placedRect, mws)), mws)

\* Edge-aligned mode in tryPlaceInExistingPanel: subtract only.
PoignetUpdateExisting(freeRects, placedRect, mws) ==
  removeOverlappingFreeRects(freeRects, placedRect, mws)

CursorAfter(cursor, rowName, c, placedRect, poignet) ==
  IF poignet /\ c.bestFit.row = rowName
  THEN Max(cursor, placedRect.x + placedRect.width)
  ELSE cursor

\* One iteration of the placement loop that forgets a piece it cannot place.
PlacePiece_DropUnplaced(st, piece, pw, ph, pIndex, mws, poignet, existing) ==
  LET c == FindFit(st.freeRects, piece, pw, ph, st.topRowX, st.bottomRowX, poignet)
      placedRect == MakePlacement(c, piece, ph, pIndex, poignet)
  IN IF c.bestFit.found
     THEN [st EXCEPT
             !.placed = Append(@, placedRect),
             !.topRowX = CursorAfter(@, "top", c, placedRect, poignet),
             !.bottomRowX = CursorAfter(@, "bottom", c, placedRect, poignet),
             !.freeRects =
                IF poignet
                THEN IF existing THEN PoignetUpdateExisting(@, placedRect, mws)
                     ELSE PoignetUpdate(@, placedRect, mws)
                ELSE GuillotineUpdate(@, c.bestFit.sourceIdx, placedRect, mws)]
     ELSE st

\* One iteration of the placement loop; existing = TRUE for the loop of
\* tryPlaceInExistingPanel, FALSE for the loop of optimizeSinglePanel.
PlacePiece(st, piece, pw, ph, pIndex, mws, poignet, existing) ==
  LET c == FindFit(st.freeRects, piece, pw, ph, st.topRowX, st.bottomRowX, poignet)
      placedRect == MakePlacement(c, piece, ph, pIndex, poignet)
  IN IF c.bestFit.found
     THEN [st EXCEPT
             !.placed = Append(@, placedRect),
             !.topRowX = CursorAfter(@, "top", c, placedRect, poignet),
             !.bottomRowX = CursorAfter(@, "bottom", c, placedRect, poignet),
             !.freeRects =
                IF poignet
                THEN IF existing THEN PoignetUpdateExisting(@, placedRect, mws)
                     ELSE PoignetUpdate(@, placedRect, mws)
                ELSE GuillotineUpdate(@, c.bestFit.sourceIdx, placedRect, mws)]
     ELSE [st EXCEPT !.remainingPieces = Append(@, piece)]

\* ------------------------------------------ the two passes over a panel
NoPass == [freeRects |-> <<>>, placed |-> <<>>, remainingPieces |-> <<>>,
           topRowX |-> 0, bottomRowX |-> 0, todo |-> <<>>]

\* Locals of optimizeSinglePanel before its placement loop.
SinglePanelStart(pw, ph, piecesToPlace) ==
  [freeRects |-> <<Rectangle(0, 0, pw, ph)>>, placed |-> <<>>, remainingPieces |-> <<>>,
   topRowX |-> 0, bottomRowX |-> 0, todo |-> piecesToPlace]

\* The inner for loop of the rebuild: split what still overlaps the placement.
RECURSIVE SplitOverlapping(_, _, _, _, _)
SplitOverlapping(freeRects, placedRect, mws, i, newRects) ==
  IF i > Len(freeRects) THEN newRects
  ELSE SplitOverlapping(freeRects, placedRect, mws, i + 1,
         IF overlaps(freeRects[i], AsRect(placedRect))
         THEN newRects \o splitRectangle(freeRects[i], placedRect.x, placedRect.y,
                                         placedRect.width, placedRect.height, mws)
         ELSE Append(newRects, freeRects[i]))

\* The free rectangles tryPlaceInExistingPanel derives from the placements.
RECURSIVE RebuildFreeRects(_, _, _, _)
RebuildFreeRects(freeRects, existingPlaced, mws, i) ==
  IF i > Len(existingPlaced) THEN freeRects
  ELSE
    LET placedRect == existingPlaced[i]
        subtracted == removeOverlappingFreeRects(freeRects, placedRect, mws)
        newRects == SplitOverlapping(subtracted, placedRect, mws, 1, <<>>)
    IN RebuildFreeRects(filterSmallRectangles(mergeRectangles(newRects), mws),
                        existingPlaced, mws, i + 1)

SetMax(S) == CHOOSE m \in S : \A n \in S : m >= n
Abs(n) == IF n < 0 THEN -n ELSE n

\* The filters that pick the placements of the top row and of the bottom row.
InRow(p, rowName, ph) ==
  IF rowName = "top" THEN p.y = 0 ELSE Abs((p.y + p.height) - ph) < 1

\* Row cursor recomputed from the placements of a row (0 when the row is empty).
RowCursor(existingPlaced, poignet, rowName, ph) ==
  LET ends == {existingPlaced[i].x + existingPlaced[i].width :
                 i \in {j \in 1..Len(existingPlaced) : InRow(existingPlaced[j], rowName, ph)}}
  IN IF poignet /\ ends # {} THEN SetMax(ends) ELSE 0

\* Locals of tryPlaceInExistingPanel before its placement loop.
ExistingPanelStart(pw, ph, existingPlaced, piecesToPlace, mws, poignet) ==
  [freeRects |-> RebuildFreeRects(<<Rectangle(0, 0, pw, ph)>>, existingPlaced, mws, 1),
   placed |-> existingPlaced,
   remainingPieces |-> <<>>,
   topRowX |-> RowCursor(existingPlaced, poignet, "top", ph),
   bottomRowX |-> RowCursor(existingPlaced, poignet, "bottom", ph),
   todo |-> piecesToPlace]

\* The whole placement loop, from the locals st on.
RECURSIVE RunPass(_, _, _, _, _, _, _)
RunPass(st, pw, ph, pIndex, mws, poignet, existing) ==
  IF st.todo = <<>> THEN st
  ELSE RunPass([PlacePiece(st, Head(st.todo), pw, ph, pIndex, mws, poignet, existing)
                  EXCEPT !.todo = Tail(st.todo)],
               pw, ph, pIndex, mws, poignet, existing)

optimizeSinglePanel(pw, ph, piecesToPlace, pIndex, mws, poignet) ==
  RunPass(SinglePanelStart(pw, ph, piecesToPlace), pw, ph, pIndex, mws, poignet, FALSE)

tryPlaceInExistingPanel(pw, ph, existingPlaced, piecesToPlace, pIndex, mws, poignet) ==
  RunPass(ExistingPanelStart(pw, ph, existingPlaced, piecesToPlace, mws, poignet),
          pw, ph, pIndex, mws, poignet, TRUE)

\* ------------------------------------------------------ the driver
PanelCap == 1000   \* if (panelIndex > 1000) break

Dims == 1..MaxDim

PieceShapes == [width : Dims, height : Dims, quantity : 1..MaxQty, rotationAllowed : BOOLEAN]

\* Input piece lists: 1..MaxTypes types, the type at position t carrying id t - 1.
InputPieces ==
  UNION {{[t \in 1..n |-> [id |-> t - 1, width |-> f[t].width, height |-> f[t].height,
                           quantity |-> f[t].quantity,
                           rotationAllowed |-> f[t].rotationAllowed]] :
             f \in [1..n -> PieceShapes]} : n \in 1..MaxTypes}

\* No call of a single function is under study: optimize runs.
NoProbe == [op |-> "none", freeRects |-> <<>>, piece |-> Piece(0, 0, 0, FALSE, 0),
            pw |-> 0, ph |-> 0, topRowX |-> 0, bottomRowX |-> 0, out |-> NoFit,
            useRotated |-> FALSE, rects |-> <<>>]

Panel(placed, freeRects, pIndex) ==
  [placed |-> placed, freeRects |-> freeRects, panelIndex |-> pIndex]

\* The call optimize(panelWidth, panelHeight, pieces, {minWasteSize, poignetEnabled})
\* has been made; nothing has run yet.
Init ==
  /\ panelWidth \in Dims
  /\ panelHeight \in Dims
  /\ pieces \in InputPieces
  /\ minWasteSize \in {0, MaxWaste}
  /\ poignetEnabled \in BOOLEAN
  /\ panels = <<>>
  /\ remainingPieces = <<>>
  /\ panelIndex = 0
  /\ piecesPlacedInAnyPanel = FALSE
  /\ previousRemainingCount = 0
  /\ madeProgress = FALSE
  /\ panelIdx = 0
  /\ pass = NoPass
  /\ pc = "start"
  /\ backfilled = {}
  /\ probe = NoProbe

inputs == <<panelWidth, panelHeight, pieces, minWasteSize, poignetEnabled>>

\* The start of optimize without the validation of the panel dimensions.
Start_NoValidation ==
  /\ pc = "start"
  /\ pc' = "outer"
  /\ remainingPieces' = sortPiecesByArea(expandPieces(pieces))
  /\ panels' = <<>>
  /\ panelIndex' = 0
  /\ UNCHANGED <<probe, inputs, backfilled, piecesPlacedInAnyPanel, previousRemainingCount,
                 madeProgress, panelIdx, pass>>

\* Validation, expansion and sorting.
Start ==
  /\ pc = "start"
  /\ IF panelWidth <= 0 \/ panelHeight <= 0
     THEN pc' = "done" /\ remainingPieces' = <<>>
     ELSE pc' = "outer" /\ remainingPieces' = sortPiecesByArea(expandPieces(pieces))
  /\ panels' = <<>>
  /\ panelIndex' = 0
  /\ UNCHANGED <<probe, inputs, backfilled, piecesPlacedInAnyPanel, previousRemainingCount, madeProgress,
                 panelIdx, pass>>

\* while (remainingPieces.length > 0) and the head of its body.
OuterTest ==
  /\ pc = "outer"
  /\ IF Len(remainingPieces) > 0
     THEN /\ piecesPlacedInAnyPanel' = FALSE
          /\ previousRemainingCount' = Len(remainingPieces)
          /\ madeProgress' = TRUE
          /\ pc' = "while"
     ELSE /\ pc' = "done"
          /\ UNCHANGED <<piecesPlacedInAnyPanel, previousRemainingCount, madeProgress>>
  /\ UNCHANGED <<probe, inputs, backfilled, panels, remainingPieces, panelIndex, panelIdx, pass>>

\* The back-fill loop skipped: straight to the new-panel block.
WhileTest_NoSweep ==
  /\ pc = "while"
  /\ pc' = "newPanel"
  /\ UNCHANGED <<probe, inputs, backfilled, panels, remainingPieces, panelIndex, piecesPlacedInAnyPanel,
                 previousRemainingCount, madeProgress, panelIdx, pass>>

\* The inner loop's test without its madeProgress conjunct: a sweep is repeated
\* whether or not the last one placed a piece.
WhileTest_IgnoringProgress ==
  /\ pc = "while"
  /\ IF Len(remainingPieces) > 0 /\ Len(panels) > 0
     THEN madeProgress' = FALSE /\ panelIdx' = 0 /\ pc' = "for"
     ELSE pc' = "newPanel" /\ UNCHANGED <<madeProgress, panelIdx>>
  /\ UNCHANGED <<probe, inputs, backfilled, panels, remainingPieces, panelIndex,
                 piecesPlacedInAnyPanel, previousRemainingCount, pass>>

\* while (madeProgress && remainingPieces.length > 0 && panels.length > 0)
WhileTest ==
  /\ pc = "while"
  /\ IF madeProgress /\ Len(remainingPieces) > 0 /\ Len(panels) > 0
     THEN madeProgress' = FALSE /\ panelIdx' = 0 /\ pc' = "for"
     ELSE pc' = "newPanel" /\ UNCHANGED <<madeProgress, panelIdx>>
  /\ UNCHANGED <<probe, inputs, backfilled, panels, remainingPieces, panelIndex, piecesPlacedInAnyPanel,
                 previousRemainingCount, pass>>

\* for (panelIdx < panels.length), the break on an empty list, and the entry
\* of tryPlaceInExistingPanel up to its placement loop.
ForTest ==
  /\ pc = "for"
  /\ IF panelIdx < Len(panels) /\ Len(remainingPieces) # 0
     THEN /\ pass' = ExistingPanelStart(panelWidth, panelHeight, panels[panelIdx + 1].placed,
                                        remainingPieces, minWasteSize, poignetEnabled)
          /\ pc' = "tryPlace"
     ELSE pc' = "while" /\ UNCHANGED pass
  /\ UNCHANGED <<probe, inputs, backfilled, panels, remainingPieces, panelIndex, piecesPlacedInAnyPanel,
                 previousRemainingCount, madeProgress, panelIdx>>

\* One iteration of the back-fill placement loop that stamps the placement with
\* the driver's panelIndex (the index of the next new panel).
TryPlacePiece_DriverIndex ==
  /\ pc = "tryPlace"
  /\ pass.todo # <<>>
  /\ pass' = [PlacePiece(pass, Head(pass.todo), panelWidth, panelHeight, panelIndex,
                         minWasteSize, poignetEnabled, TRUE)
                EXCEPT !.todo = Tail(pass.todo)]
  /\ UNCHANGED <<probe, inputs, backfilled, panels, remainingPieces, panelIndex,
                 piecesPlacedInAnyPanel, previousRemainingCount, madeProgress, panelIdx, pc>>

\* One iteration of the placement loop of tryPlaceInExistingPanel.
TryPlacePiece ==
  /\ pc = "tryPlace"
  /\ pass.todo # <<>>
  /\ pass' = [PlacePiece(pass, Head(pass.todo), panelWidth, panelHeight, panelIdx,
                         minWasteSize, poignetEnabled, TRUE)
                EXCEPT !.todo = Tail(pass.todo)]
  /\ UNCHANGED <<probe, inputs, backfilled, panels, remainingPieces, panelIndex, piecesPlacedInAnyPanel,
                 previousRemainingCount, madeProgress, panelIdx, pc>>

\* tryPlaceInExistingPanel returns and the driver keeps or drops a result that
\* placed a piece, either way.
TryPlaceReturn_MayDrop ==
  /\ pc = "tryPlace"
  /\ pass.todo = <<>>
  /\ \/ /\ Len(pass.placed) > Len(panels[panelIdx + 1].placed)
        /\ panels' = [panels EXCEPT ![panelIdx + 1] =
                        Panel(pass.placed, pass.freeRects, panelIdx)]
        /\ remainingPieces' = pass.remainingPieces
        /\ piecesPlacedInAnyPanel' = TRUE
        /\ madeProgress' = TRUE
        /\ backfilled' = backfilled \cup {panelIdx}
     \/ UNCHANGED <<panels, remainingPieces, piecesPlacedInAnyPanel, madeProgress,
                     backfilled>>
  /\ panelIdx' = panelIdx + 1
  /\ pass' = NoPass
  /\ pc' = "for"
  /\ UNCHANGED <<probe, inputs, panelIndex, previousRemainingCount>>

\* tryPlaceInExistingPanel returns and the driver stores its result whether or
\* not it placed a piece.
TryPlaceReturn_AlwaysStore ==
  /\ pc = "tryPlace"
  /\ pass.todo = <<>>
  /\ panels' = [panels EXCEPT ![panelIdx + 1] = Panel(pass.placed, pass.freeRects, panelIdx)]
  /\ remainingPieces' = pass.remainingPieces
  /\ IF Len(pass.placed) > Len(panels[panelIdx + 1].placed)
     THEN /\ piecesPlacedInAnyPanel' = TRUE
          /\ madeProgress' = TRUE
          /\ backfilled' = backfilled \cup {panelIdx}
     ELSE UNCHANGED <<piecesPlacedInAnyPanel, madeProgress, backfilled>>
  /\ panelIdx' = panelIdx + 1
  /\ pass' = NoPass
  /\ pc' = "for"
  /\ UNCHANGED <<probe, inputs, panelIndex, previousRemainingCount>>

\* tryPlaceInExistingPanel returns; the driver keeps its result if it placed a piece.
TryPlaceReturn ==
  /\ pc = "tryPlace"
  /\ pass.todo = <<>>
  /\ IF Len(pass.placed) > Len(panels[panelIdx + 1].placed)
     THEN /\ panels' = [panels EXCEPT ![panelIdx + 1] =
                          Panel(pass.placed, pass.freeRects, panelIdx)]
          /\ remainingPieces' = pass.remainingPieces
          /\ piecesPlacedInAnyPanel' = TRUE
          /\ madeProgress' = TRUE
          /\ backfilled' = backfilled \cup {panelIdx}
     ELSE UNCHANGED <<panels, remainingPieces, piecesPlacedInAnyPanel, madeProgress,
                      backfilled>>
  /\ panelIdx' = panelIdx + 1
  /\ pass' = NoPass
  /\ pc' = "for"
  /\ UNCHANGED <<probe, inputs, panelIndex, previousRemainingCount>>

\* if (!piecesPlacedInAnyPanel && remainingPieces.length > 0) and the entry of
\* optimizeSinglePanel up to its placement loop.
NewPanelTest ==
  /\ pc = "newPanel"
  /\ IF ~piecesPlacedInAnyPanel /\ Len(remainingPieces) > 0
     THEN pass' = SinglePanelStart(panelWidth, panelHeight, remainingPieces) /\ pc' = "single"
     ELSE pc' = "progress" /\ UNCHANGED pass
  /\ UNCHANGED <<probe, inputs, backfilled, panels, remainingPieces, panelIndex, piecesPlacedInAnyPanel,
                 previousRemainingCount, madeProgress, panelIdx>>

\* One iteration of the placement loop of optimizeSinglePanel.
SinglePanelPiece ==
  /\ pc = "single"
  /\ pass.todo # <<>>
  /\ pass' = [PlacePiece(pass, Head(pass.todo), panelWidth, panelHeight, panelIndex,
                         minWasteSize, poignetEnabled, FALSE)
                EXCEPT !.todo = Tail(pass.todo)]
  /\ UNCHANGED <<probe, inputs, backfilled, panels, remainingPieces, panelIndex, piecesPlacedInAnyPanel,
                 previousRemainingCount, madeProgress, panelIdx, pc>>

\* optimizeSinglePanel returns: the panel is pushed, then the two breaks.
SinglePanelReturn ==
  /\ pc = "single"
  /\ pass.todo = <<>>
  /\ panels' = Append(panels, Panel(pass.placed, pass.freeRects, panelIndex))
  /\ IF Len(pass.placed) = 0
     THEN pc' = "done" /\ UNCHANGED <<remainingPieces, panelIndex>>
     ELSE /\ remainingPieces' = pass.remainingPieces
          /\ panelIndex' = panelIndex + 1
          /\ pc' = IF panelIndex + 1 > PanelCap THEN "done" ELSE "progress"
  /\ pass' = NoPass
  /\ UNCHANGED <<probe, inputs, backfilled, piecesPlacedInAnyPanel, previousRemainingCount, madeProgress,
                 panelIdx>>

\* The no-progress check that ends the body of the outer loop.
ProgressCheck ==
  /\ pc = "progress"
  /\ pc' = IF /\ Len(remainingPieces) = previousRemainingCount
              /\ Len(remainingPieces) > 0
              /\ Len(optimizeSinglePanel(panelWidth, panelHeight, remainingPieces, 0,
                                         minWasteSize, poignetEnabled).placed) = 0
           THEN "done"
           ELSE "outer"
  /\ UNCHANGED <<probe, inputs, backfilled, panels, remainingPieces, panelIndex, piecesPlacedInAnyPanel,
                 previousRemainingCount, madeProgress, panelIdx, pass>>

Next ==
  \/ Start
  \/ OuterTest
  \/ WhileTest
  \/ ForTest
  \/ TryPlacePiece
  \/ TryPlaceReturn
  \/ NewPanelTest
  \/ SinglePanelPiece
  \/ SinglePanelReturn
  \/ ProgressCheck

Spec == Init /\ [][Next]_vars

\* ------------------------------------- the driver loop in whole passes
SetMin(S) == CHOOSE m \in S : \A n \in S : m <= n

\* One sweep of the back-fill for loop, from panel index `from` (0-based) on.
\* A call of tryPlaceInExistingPanel that places nothing changes nothing, so the
\* sweep is advanced directly to the next panel that takes a piece.
RECURSIVE SweepPanels(_, _, _, _, _, _, _)

\* The indices from `from` on whose panel takes at least one of the pieces rem.
SweepTakers(ps, rem, from, pw, ph, mws, poignet) ==
  IF rem = <<>> THEN {}
  ELSE {k \in from..(Len(ps) - 1) :
          Len(tryPlaceInExistingPanel(pw, ph, ps[k + 1].placed, rem, k, mws, poignet).placed)
            > Len(ps[k + 1].placed)}

\* Panel k took pieces (result): it is replaced and the sweep goes on after it.
SweepKeep(ps, k, result, pw, ph, mws, poignet) ==
  [SweepPanels([ps EXCEPT ![k + 1] = Panel(result.placed, result.freeRects, k)],
               result.remainingPieces, k + 1, pw, ph, mws, poignet)
     EXCEPT !.placedAny = TRUE, !.filled = @ \cup {k}]

\* The call of tryPlaceInExistingPanel on panel k, the first that takes a piece.
SweepAt(ps, rem, from, k, pw, ph, mws, poignet) ==
  SweepKeep(ps, k, tryPlaceInExistingPanel(pw, ph, ps[k + 1].placed, rem, k, mws, poignet),
            pw, ph, mws, poignet)

\* The sweep from `from` on, given the panels that take a piece.
SweepOver(ps, rem, from, takers, pw, ph, mws, poignet) ==
  IF takers = {}
  THEN [panels |-> ps, remainingPieces |-> rem, placedAny |-> FALSE,
        panelIdx |-> IF rem = <<>> THEN Min(from, Len(ps)) ELSE Len(ps),
        filled |-> {}]
  ELSE SweepAt(ps, rem, from, SetMin(takers), pw, ph, mws, poignet)

SweepPanels(ps, rem, from, pw, ph, mws, poignet) ==
  SweepOver(ps, rem, from, SweepTakers(ps, rem, from, pw, ph, mws, poignet),
            pw, ph, mws, poignet)

\* The driver's variables after a sweep with outcome s.
AfterSweep(d, s) ==
  [d EXCEPT !.panels = s.panels,
            !.remainingPieces = s.remainingPieces,
            !.piecesPlacedInAnyPanel = @ \/ s.placedAny,
            !.madeProgress = s.placedAny,
            !.panelIdx = s.panelIdx,
            !.backfilled = @ \cup s.filled]

\* The back-fill while loop; d holds the driver's variables.
RECURSIVE BackfillWhile(_, _, _, _, _)
BackfillWhile(d, pw, ph, mws, poignet) ==
  IF d.madeProgress /\ Len(d.remainingPieces) > 0 /\ Len(d.panels) > 0
  THEN BackfillWhile(AfterSweep(d, SweepPanels(d.panels, d.remainingPieces, 0,
                                               pw, ph, mws, poignet)),
                     pw, ph, mws, poignet)
  ELSE d

\* The new-panel block after optimizeSinglePanel has returned panelResult: the
\* push, then the two breaks.
PushPanel(d, panelResult) ==
  LET pushed == Append(d.panels,
                       Panel(panelResult.placed, panelResult.freeRects, d.panelIndex))
  IN IF Len(panelResult.placed) = 0
     THEN [d EXCEPT !.panels = pushed, !.pc = "done"]
     ELSE [d EXCEPT !.panels = pushed,
                    !.remainingPieces = panelResult.remainingPieces,
                    !.panelIndex = @ + 1,
                    !.pc = IF d.panelIndex + 1 > PanelCap THEN "done" ELSE "progress"]

\* The new-panel block of the outer loop body; pc is "done" after a break.
OpenPanel(d, pw, ph, mws, poignet) ==
  IF ~d.piecesPlacedInAnyPanel /\ Len(d.remainingPieces) > 0
  THEN PushPanel(d, optimizeSinglePanel(pw, ph, d.remainingPieces, d.panelIndex, mws, poignet))
  ELSE [d EXCEPT !.pc = "progress"]

\* The no-progress check at the end of the outer loop body.
NoProgressBreak(d, pw, ph, mws, poignet) ==
  /\ Len(d.remainingPieces) = d.previousRemainingCount
  /\ Len(d.remainingPieces) > 0
  /\ Len(optimizeSinglePanel(pw, ph, d.remainingPieces, 0, mws, poignet).placed) = 0

\* The outer while loop of optimize.
RECURSIVE OuterLoop(_, _, _, _, _)
OuterLoop(d, pw, ph, mws, poignet) ==
  IF Len(d.remainingPieces) = 0 THEN [d EXCEPT !.pc = "done"]
  ELSE
    LET b == BackfillWhile([d EXCEPT !.piecesPlacedInAnyPanel = FALSE,
                                     !.previousRemainingCount = Len(d.remainingPieces),
                                     !.madeProgress = TRUE],
                           pw, ph, mws, poignet)
        o == OpenPanel(b, pw, ph, mws, poignet)
    IN IF o.pc = "done" THEN o
       ELSE IF NoProgressBreak(o, pw, ph, mws, poignet) THEN [o EXCEPT !.pc = "done"]
       ELSE OuterLoop(o, pw, ph, mws, poignet)

\* The driver's variables when optimize has expanded and sorted the pieces.
DriverStart(sorted) ==
  [panels |-> <<>>, remainingPieces |-> sorted, panelIndex |-> 0,
   piecesPlacedInAnyPanel |-> FALSE, previousRemainingCount |-> 0,
   madeProgress |-> FALSE, panelIdx |-> 0, backfilled |-> {}, pc |-> "outer"]

\* optimize as a function of its arguments: the driver's variables at its return.
optimize(pw, ph, types, mws, poignet) ==
  IF pw <= 0 \/ ph <= 0 THEN [DriverStart(<<>>) EXCEPT !.pc = "done"]
  ELSE OuterLoop(DriverStart(sortPiecesByArea(expandPieces(types))), pw, ph, mws, poignet)

\* The driver's variables in the state of the step-by-step run.
Driver ==
  [panels |-> panels, remainingPieces |-> remainingPieces, panelIndex |-> panelIndex,
   piecesPlacedInAnyPanel |-> piecesPlacedInAnyPanel,
   previousRemainingCount |-> previousRemainingCount, madeProgress |-> madeProgress,
   panelIdx |-> panelIdx, backfilled |-> backfilled, pc |-> pc]

\* The step-by-step run ends in the state the whole-pass loop computes.
StepsAgreeWithPasses ==
  pc = "done" => Driver = optimize(panelWidth, panelHeight, pieces, minWasteSize, poignetEnabled)

\* --------------------------------------- runs that reach the panel cap
CapWindow == 3     \* the runs start with PanelCap - CapWindow .. PanelCap panels
CapExtra == 3      \* and with 1..CapExtra pieces still to place

\* n unit pieces of one type, as expandPieces and sortPiecesByArea deliver them.
UnitPieces(n, rot) == [i \in 1..n |-> Piece(1, 1, i - 1, rot, 0)]

\* optimize(1, 1, unit pieces) at the head of its outer loop when n panels are
\* open: every panel holds one piece and no free rectangle, the pieces after
\* the n-th remain, and the loop flags are those the n-th iteration left.
UnitRunState(sorted, n) ==
  [panels |-> [k \in 1..n |->
                 Panel(<<PlacedRectangle(0, 0, 1, 1, sorted[k].id, sorted[k].pieceTypeId,
                                         FALSE, k - 1)>>, <<>>, k - 1)],
   remainingPieces |-> SubSeq(sorted, n + 1, Len(sorted)),
   panelIndex |-> n,
   piecesPlacedInAnyPanel |-> FALSE,
   previousRemainingCount |-> IF n = 0 THEN 0 ELSE Len(sorted) - n + 1,
   madeProgress |-> (n = 1),
   panelIdx |-> IF n = 0 THEN 0 ELSE n - 1,
   backfilled |-> {},
   pc |-> "outer"]

UnitInput ==
  /\ panelWidth = 1
  /\ panelHeight = 1
  /\ \A t \in 1..Len(pieces) : pieces[t].width = 1 /\ pieces[t].height = 1

\* The step-by-step run of a unit input passes through exactly these states.
UnitRunShape ==
  (pc = "outer" /\ UnitInput)
    => Driver = UnitRunState(sortPiecesByArea(expandPieces(pieces)), Len(panels))

\* One type of unit pieces expands and sorts to UnitPieces.
UnitPiecesShape ==
  (UnitInput /\ Len(pieces) = 1)
    => sortPiecesByArea(expandPieces(pieces))
         = UnitPieces(pieces[1].quantity, pieces[1].rotationAllowed)

\* optimize(1, 1, [n + r unit pieces]) at the head of the outer loop with n
\* panels open, n close to the cap.
InitCap ==
  /\ panelWidth = 1
  /\ panelHeight = 1
  /\ minWasteSize \in {0, MaxWaste}
  /\ poignetEnabled \in BOOLEAN
  /\ \E n \in (PanelCap - CapWindow)..PanelCap, r \in 1..CapExtra, rot \in BOOLEAN :
       LET d == UnitRunState(UnitPieces(n + r, rot), n)
       IN /\ pieces = <<[id |-> 0, width |-> 1, height |-> 1, quantity |-> n + r,
                         rotationAllowed |-> rot]>>
          /\ panels = d.panels
          /\ remainingPieces = d.remainingPieces
          /\ panelIndex = d.panelIndex
          /\ piecesPlacedInAnyPanel = d.piecesPlacedInAnyPanel
          /\ previousRemainingCount = d.previousRemainingCount
          /\ madeProgress = d.madeProgress
          /\ panelIdx = d.panelIdx
          /\ backfilled = d.backfilled
          /\ pc = d.pc
  /\ pass = NoPass
  /\ probe = NoProbe

\* The back-fill while loop as one step.
BackfillPass ==
  /\ pc = "while"
  /\ \E d \in {BackfillWhile(Driver, panelWidth, panelHeight, minWasteSize, poignetEnabled)} :
        /\ panels' = d.panels
        /\ remainingPieces' = d.remainingPieces
        /\ piecesPlacedInAnyPanel' = d.piecesPlacedInAnyPanel
        /\ madeProgress' = d.madeProgress
        /\ panelIdx' = d.panelIdx
        /\ backfilled' = d.backfilled
  /\ pc' = "newPanel"
  /\ UNCHANGED <<probe, inputs, panelIndex, previousRemainingCount, pass>>

\* The new-panel block as one step.
NewPanelPass ==
  /\ pc = "newPanel"
  /\ \E d \in {OpenPanel(Driver, panelWidth, panelHeight, minWasteSize, poignetEnabled)} :
        /\ panels' = d.panels
        /\ remainingPieces' = d.remainingPieces
        /\ panelIndex' = d.panelIndex
        /\ pc' = d.pc
  /\ UNCHANGED <<probe, inputs, backfilled, piecesPlacedInAnyPanel, previousRemainingCount,
                 madeProgress, panelIdx, pass>>

NextCap ==
  \/ OuterTest
  \/ BackfillPass
  \/ NewPanelPass
  \/ ProgressCheck

SpecCap == InitCap /\ [][NextCap]_vars

\* ------------------------------------------------ the returned result
\* Percentages are kept as exact fractions num / den in lowest terms (the code
\* holds their double approximations); 0 is 0 / 1 and 100 is 100 / 1.
RECURSIVE GCD(_, _)
GCD(a, b) == IF b = 0 THEN a ELSE GCD(b, a % b)

\* The whole number n as a percentage.
Pct(n) == [num |-> n, den |-> 1]

\* (part / total) * 100
Percent(part, total) ==
  LET g == GCD(Abs(100 * part), total)
  IN [num |-> (100 * part) \div g, den |-> total \div g]

\* The placements of one panel only, the others forgotten.
FlatPlaced_OnePanel(ps, k) == IF k > Len(ps) THEN <<>> ELSE ps[k].placed

\* panels.flatMap(p => p.placed)
RECURSIVE FlatPlaced(_, _)
FlatPlaced(ps, k) == IF k > Len(ps) THEN <<>> ELSE ps[k].placed \o FlatPlaced(ps, k + 1)

\* rects.reduce((sum, rect) => sum + rect.getArea(), 0)
RECURSIVE SumAreas(_, _)
SumAreas(rects, i) == IF i > Len(rects) THEN 0 ELSE getArea(rects[i]) + SumAreas(rects, i + 1)

\* panels.reduce((sum, panel) => sum + [area of panel.freeRects], 0)
RECURSIVE SumFreeAreas(_, _)
SumFreeAreas(ps, k) ==
  IF k > Len(ps) THEN 0 ELSE SumAreas(ps[k].freeRects, 1) + SumFreeAreas(ps, k + 1)

\* The stats literal of the early return.
EmptyStats(mws) ==
  [totalUsedArea |-> 0, totalWasteArea |-> 0, totalPanelArea |-> 0,
   usedPercentage |-> Pct(0), wastePercentage |-> Pct(100),
   panelCount |-> 0, minWasteSize |-> mws]

\* The statistics computed after the driver loop.
Stats(pw, ph, ps, mws) ==
  LET panelArea == pw * ph
      totalPanelArea == panelArea * Len(ps)
      totalUsedArea == SumAreas(FlatPlaced(ps, 1), 1)
      totalWasteArea == totalPanelArea - totalUsedArea
  IN [totalUsedArea |-> totalUsedArea,
      totalWasteArea |-> totalWasteArea,
      totalPanelArea |-> totalPanelArea,
      usedPercentage |-> IF totalPanelArea > 0 THEN Percent(totalUsedArea, totalPanelArea)
                         ELSE Pct(0),
      wastePercentage |-> IF totalPanelArea > 0 THEN Percent(totalWasteArea, totalPanelArea)
                          ELSE Pct(100),
      panelCount |-> Len(ps),
      minWasteSize |-> mws,
      usableWasteArea |-> SumFreeAreas(ps, 1)]

\* What optimize returns, read in the state pc = "done".
Result ==
  IF panelWidth <= 0 \/ panelHeight <= 0
  THEN [panels |-> <<>>, rejected |-> <<>>, stats |-> EmptyStats(minWasteSize)]
  ELSE [panels |-> panels, rejected |-> remainingPieces,
        stats |-> Stats(panelWidth, panelHeight, panels, minWasteSize)]

\* --------------------------- calls with dimensions that are not positive
AnyBelow == 1      \* panel and piece dimensions range from -AnyBelow on
AnyMaxDim == 1     \* and piece dimensions up to AnyMaxDim, panel dimensions up to MaxDim

AnyPieceShapes ==
  [width : (0 - AnyBelow)..AnyMaxDim, height : (0 - AnyBelow)..AnyMaxDim,
   quantity : 1..MaxQty, rotationAllowed : BOOLEAN]

AnyInputPieces ==
  UNION {{[t \in 1..n |-> [id |-> t - 1, width |-> f[t].width, height |-> f[t].height,
                           quantity |-> f[t].quantity,
                           rotationAllowed |-> f[t].rotationAllowed]] :
             f \in [1..n -> AnyPieceShapes]} : n \in 1..MaxTypes}

\* The call optimize(panelWidth, panelHeight, pieces, options) with any integer
\* dimensions has been made; nothing has run yet.
InitAny ==
  /\ panelWidth \in (0 - AnyBelow)..MaxDim
  /\ panelHeight \in (0 - AnyBelow)..MaxDim
  /\ pieces \in AnyInputPieces
  /\ minWasteSize \in {0, MaxWaste}
  /\ poignetEnabled \in BOOLEAN
  /\ panels = <<>>
  /\ remainingPieces = <<>>
  /\ panelIndex = 0
  /\ piecesPlacedInAnyPanel = FALSE
  /\ previousRemainingCount = 0
  /\ madeProgress = FALSE
  /\ panelIdx = 0
  /\ pass = NoPass
  /\ pc = "start"
  /\ backfilled = {}
  /\ probe = NoProbe

SpecAny == InitAny /\ [][Next]_vars

\* ------------------------------- single calls of the placement strategies
FitFar == 1500     \* free rectangles of the free-mode calls start at x in {0, 1, FitFar}
FitBig == 400      \* and have sides in {1, FitBig}; the piece has sides in {1, FitBig}
PoignetFar == 1000 \* free rectangles and the top cursor of the edge-aligned calls are at 0 or PoignetFar
MaxRects == 2      \* number of free rectangles of a call of a placement strategy
MergeMaxRects == 3 \* number of free rectangles of a call of mergeRectangles
MergeMaxPos == 1   \* they start at x, y in 0..MergeMaxPos
MergeMaxSide == 2  \* and have sides in 1..MergeMaxSide

SeqsUpTo(S, n) == UNION {[1..k -> S] : k \in 0..n}

FitRects ==
  {Rectangle(x, y, w, h) : x \in {0, 1, FitFar}, y \in {0, 1}, w \in {1, FitBig}, h \in {1, FitBig}}

PoignetWide == PoignetFar + 2
PoignetHigh == 3

PoignetRects ==
  {Rectangle(x, y, w, h) : x \in {0, PoignetFar}, y \in {0, 1}, w \in 1..2, h \in 1..PoignetHigh}

MergeRects ==
  {Rectangle(x, y, w, h) : x \in 0..MergeMaxPos, y \in 0..MergeMaxPos,
                           w \in 1..MergeMaxSide, h \in 1..MergeMaxSide}

\* The arguments of one call: findBestFit(freeRects, width, height), the body
\* of the placement loop for one piece in edge-aligned mode, or
\* mergeRectangles(freeRects).
ProbeCalls ==
  {[NoProbe EXCEPT !.op = "findBestFit", !.freeRects = f,
                   !.piece = Piece(w, h, 0, FALSE, 0),
                   !.pw = FitFar + FitBig, !.ph = 1 + FitBig] :
     f \in SeqsUpTo(FitRects, MaxRects), w \in {1, FitBig}, h \in {1, FitBig}}
  \cup
  {[NoProbe EXCEPT !.op = "FindFit", !.freeRects = f,
                   !.piece = Piece(w, h, 0, r, 0),
                   !.pw = PoignetWide, !.ph = PoignetHigh, !.topRowX = t] :
     f \in SeqsUpTo(PoignetRects, MaxRects), w \in 1..2, h \in 1..2, r \in BOOLEAN,
     t \in {0, PoignetFar}}
  \cup
  {[NoProbe EXCEPT !.op = "mergeRectangles", !.freeRects = f,
                   !.pw = MergeMaxPos + MergeMaxSide, !.ph = MergeMaxPos + MergeMaxSide] :
     f \in SeqsUpTo(MergeRects, MergeMaxRects)}

InitProbe ==
  /\ probe \in ProbeCalls
  /\ panelWidth = probe.pw
  /\ panelHeight = probe.ph
  /\ pieces = <<>>
  /\ minWasteSize = 0
  /\ poignetEnabled = (probe.op = "FindFit")
  /\ panels = <<>>
  /\ remainingPieces = <<>>
  /\ panelIndex = 0
  /\ piecesPlacedInAnyPanel = FALSE
  /\ previousRemainingCount = 0
  /\ madeProgress = FALSE
  /\ panelIdx = 0
  /\ pass = NoPass
  /\ pc = "call"
  /\ backfilled = {}

\* findBestFit(freeRects, width, height) returns.
CallFindBestFit ==
  /\ pc = "call"
  /\ probe.op = "findBestFit"
  /\ probe' = [probe EXCEPT
                 !.out = findBestFit(probe.freeRects, probe.piece.width, probe.piece.height)]
  /\ pc' = "returned"
  /\ UNCHANGED <<inputs, panels, remainingPieces, panelIndex, piecesPlacedInAnyPanel,
                 previousRemainingCount, madeProgress, panelIdx, pass, backfilled>>

\* fitOriginal, fitRotated and the choice between them for one piece of the
\* placement loop.
CallFindFit ==
  /\ pc = "call"
  /\ probe.op = "FindFit"
  /\ \E c \in {FindFit(probe.freeRects, probe.piece, probe.pw, probe.ph, probe.topRowX,
                       probe.bottomRowX, poignetEnabled)} :
       probe' = [probe EXCEPT !.out = c.bestFit, !.useRotated = c.useRotated]
  /\ pc' = "returned"
  /\ UNCHANGED <<inputs, panels, remainingPieces, panelIndex, piecesPlacedInAnyPanel,
                 previousRemainingCount, madeProgress, panelIdx, pass, backfilled>>

\* mergeRectangles(freeRects) returns.
CallMergeRectangles ==
  /\ pc = "call"
  /\ probe.op = "mergeRectangles"
  /\ probe' = [probe EXCEPT !.rects = mergeRectangles(probe.freeRects)]
  /\ pc' = "returned"
  /\ UNCHANGED <<inputs, panels, remainingPieces, panelIndex, piecesPlacedInAnyPanel,
                 previousRemainingCount, madeProgress, panelIdx, pass, backfilled>>

NextProbe ==
  \/ CallFindBestFit
  \/ CallFindFit
  \/ CallMergeRectangles

SpecProbe == InitProbe /\ [][NextProbe]_vars

\* ------------------------- single calls of tryPlaceInExistingPanel
ExistingWide == 6  \* the panels of these calls are MaxDim or ExistingWide wide
ExistingHigh == 5  \* and MaxDim or ExistingHigh high
ExistingSmall == 2 \* the pieces have sides in {1, ExistingSmall, ExistingBig}
ExistingBig == 4

ExistingPieceShapes ==
  [width : {1, ExistingSmall, ExistingBig}, height : {1, ExistingBig},
   quantity : 1..(MaxQty + 1), rotationAllowed : BOOLEAN]

ExistingInputPieces ==
  UNION {{[t \in 1..n |-> [id |-> t - 1, width |-> f[t].width, height |-> f[t].height,
                           quantity |-> f[t].quantity,
                           rotationAllowed |-> f[t].rotationAllowed]] :
             f \in [1..n -> ExistingPieceShapes]} : n \in 1..MaxTypes}

\* tryPlaceInExistingPanel(panelWidth, panelHeight, existingPlaced, piecesToPlace,
\* 0, minWasteSize, poignetEnabled) has been called and has rebuilt its free
\* rectangles: existingPlaced is what optimizeSinglePanel placed of the first
\* k pieces of the sorted list, piecesToPlace is the rest of that list.
InitExisting ==
  /\ panelWidth \in {MaxDim, ExistingWide}
  /\ panelHeight \in {MaxDim, ExistingHigh}
  /\ pieces \in ExistingInputPieces
  /\ minWasteSize \in {0, MaxWaste}
  /\ poignetEnabled \in BOOLEAN
  /\ \E sorted \in {sortPiecesByArea(expandPieces(pieces))} :
       \E k \in 1..(Len(sorted) - 1) :
         \E r \in {optimizeSinglePanel(panelWidth, panelHeight, SubSeq(sorted, 1, k), 0,
                                       minWasteSize, poignetEnabled)} :
           /\ r.remainingPieces = <<>>
           /\ panels = <<Panel(r.placed, r.freeRects, 0)>>
           /\ remainingPieces = SubSeq(sorted, k + 1, Len(sorted))
           /\ pass = ExistingPanelStart(panelWidth, panelHeight, r.placed,
                                        SubSeq(sorted, k + 1, Len(sorted)),
                                        minWasteSize, poignetEnabled)
  /\ panelIndex = 1
  /\ piecesPlacedInAnyPanel = FALSE
  /\ previousRemainingCount = Len(remainingPieces)
  /\ madeProgress = FALSE
  /\ panelIdx = 0
  /\ pc = "tryPlace"
  /\ backfilled = {}
  /\ probe = NoProbe

NextExisting ==
  \/ TryPlacePiece
  \/ TryPlaceReturn

SpecExisting == InitExisting /\ [][NextExisting]_vars

\* ------------------------------------------------- runs under fairness
LiveMaxDim == 2    \* panel widths and piece dimensions of the fair runs range over 1..LiveMaxDim
LiveMaxHigh == 3   \* panel heights of the fair runs range over 1..LiveMaxHigh

LivePieceShapes ==
  [width : 1..LiveMaxDim, height : 1..LiveMaxDim, quantity : 1..MaxQty,
   rotationAllowed : BOOLEAN]

LiveInputPieces ==
  UNION {{[t \in 1..n |-> [id |-> t - 1, width |-> f[t].width, height |-> f[t].height,
                           quantity |-> f[t].quantity,
                           rotationAllowed |-> f[t].rotationAllowed]] :
             f \in [1..n -> LivePieceShapes]} : n \in 1..MaxTypes}

\* The call optimize(panelWidth, panelHeight, pieces, options) has been made.
InitLive ==
  /\ panelWidth \in 1..LiveMaxDim
  /\ panelHeight \in 1..LiveMaxHigh
  /\ pieces \in LiveInputPieces
  /\ minWasteSize \in {0, MaxWaste}
  /\ poignetEnabled \in BOOLEAN
  /\ panels = <<>>
  /\ remainingPieces = <<>>
  /\ panelIndex = 0
  /\ piecesPlacedInAnyPanel = FALSE
  /\ previousRemainingCount = 0
  /\ madeProgress = FALSE
  /\ panelIdx = 0
  /\ pass = NoPass
  /\ pc = "start"
  /\ backfilled = {}
  /\ probe = NoProbe

\* The steps of the driver that only test and assign its own variables.
DriverSteps ==
  \/ Start
  \/ OuterTest
  \/ WhileTest
  \/ TryPlaceReturn
  \/ SinglePanelReturn

\* The steps that run the placement code of a pass.
PassSteps ==
  \/ ForTest
  \/ TryPlacePiece
  \/ NewPanelTest
  \/ SinglePanelPiece
  \/ ProgressCheck

\* The condition under which a step of PassSteps can be taken; each of them
\* changes pc or shortens pass.todo.
PassStepsEnabled ==
  \/ pc \in {"for", "newPanel", "progress"}
  \/ pc \in {"tryPlace", "single"} /\ pass.todo # <<>>

\* Weak fairness of PassSteps with its enabling condition written out.
FairPassSteps ==
  \/ []<>(~PassStepsEnabled)
  \/ []<><<PassSteps>>_vars

\* optimize is synchronous code on one thread: a step that can be taken is taken.
SpecLive == InitLive /\ [][Next]_vars /\ WF_vars(DriverSteps) /\ FairPassSteps

\* ------------------------------------------------------------ claims
\* The placements and free rectangles to look at: every panel of the list and,
\* while a pass runs, the locals of that pass.
PanelViews ==
  {[placed |-> panels[k].placed, freeRects |-> panels[k].freeRects] : k \in 1..Len(panels)}
    \cup (IF pc \in {"single", "tryPlace"}
          THEN {[placed |-> pass.placed, freeRects |-> pass.freeRects]}
          ELSE {})

PairwiseDisjoint(placed) ==
  \A i, j \in 1..Len(placed) : i < j => ~overlaps(AsRect(placed[i]), AsRect(placed[j]))

InsideStock(r) ==
  0 <= r.x /\ 0 <= r.y /\ r.x + r.width <= panelWidth /\ r.y + r.height <= panelHeight

\* C1: two distinct placements on the same panel never share interior area, in
\* either mode, on panels filled by the new-panel pass and on panels modified
\* by the back-fill pass, after every placement and in the result.
C1_NonOverlap == \A v \in PanelViews : PairwiseDisjoint(v.placed)

\* A finished run in which a back-fill pass added a placement to a panel.
C1_Witness ==
  /\ pc = "done"
  /\ \E k \in backfilled : Len(panels[k + 1].placed) >= 2

\* C2: every placement lies inside the stock rectangle [0,W] x [0,H].
C2_Containment ==
  \A v \in PanelViews : \A i \in 1..Len(v.placed) : InsideStock(v.placed[i])

\* A finished run in which a back-filled panel holds a placement that touches
\* the right and the bottom edge of the stock rectangle and not the top edge.
C2_Witness ==
  /\ pc = "done"
  /\ \E k \in backfilled : \E i \in 1..Len(panels[k + 1].placed) :
        LET p == panels[k + 1].placed[i]
        IN p.y > 0 /\ p.x + p.width = panelWidth /\ p.y + p.height = panelHeight

\* C3: after every placement and in the result, every free rectangle of a panel
\* lies inside the stock rectangle and overlaps no placement of that panel.
C3_FreeRectsClear ==
  \A v \in PanelViews : \A f \in 1..Len(v.freeRects) :
    /\ InsideStock(v.freeRects[f])
    /\ \A i \in 1..Len(v.placed) : ~overlaps(v.freeRects[f], AsRect(v.placed[i]))

\* A back-fill pass has just placed a piece and free rectangles remain.
C3_Witness ==
  /\ pc = "tryPlace"
  /\ Len(pass.placed) > Len(panels[panelIdx + 1].placed)
  /\ Len(pass.freeRects) >= 2

\* C4 (as claimed): in the result every free rectangle of every returned panel
\* has width >= minWasteSize and height >= minWasteSize.
C4_MinWasteInResult ==
  pc = "done" =>
    \A k \in 1..Len(panels) : \A f \in 1..Len(panels[k].freeRects) :
      /\ panels[k].freeRects[f].width >= minWasteSize
      /\ panels[k].freeRects[f].height >= minWasteSize

RECURSIVE SumQuantity(_, _)
SumQuantity(types, t) ==
  IF t > Len(types) THEN 0 ELSE types[t].quantity + SumQuantity(types, t + 1)

RECURSIVE PlacedIds(_, _, _)
PlacedIds(ps, k, skip) ==
  IF k > Len(ps) THEN <<>>
  ELSE (IF k = skip THEN <<>>
        ELSE [i \in 1..Len(ps[k].placed) |-> ps[k].placed[i].pieceId])
       \o PlacedIds(ps, k + 1, skip)

PieceIds(ps) == [i \in 1..Len(ps) |-> ps[i].id]

\* Every piece id the run holds at this point, with repetitions: the placements
\* of all panels and the pieces still to place; while a pass runs, its locals
\* stand for the panel it works on and for the remaining pieces.
AllIds ==
  IF pc = "single"
  THEN PlacedIds(panels, 1, 0) \o [i \in 1..Len(pass.placed) |-> pass.placed[i].pieceId]
         \o PieceIds(pass.remainingPieces) \o PieceIds(pass.todo)
  ELSE IF pc = "tryPlace"
  THEN PlacedIds(panels, 1, panelIdx + 1)
         \o [i \in 1..Len(pass.placed) |-> pass.placed[i].pieceId]
         \o PieceIds(pass.remainingPieces) \o PieceIds(pass.todo)
  ELSE PlacedIds(panels, 1, 0) \o PieceIds(remainingPieces)

\* C5: placements plus rejected pieces number the sum of the input quantities
\* and every expanded piece id occurs exactly once among them; no pass and no
\* exit of the driver loop loses or duplicates a piece.
C5_Conservation ==
  pc # "start" =>
    /\ Len(AllIds) = SumQuantity(pieces, 1)
    /\ {AllIds[i] : i \in 1..Len(AllIds)} = 0..(SumQuantity(pieces, 1) - 1)

\* A finished run with placements on a back-filled panel, a second panel and a
\* rejected piece.
C5_Witness ==
  /\ pc = "done"
  /\ backfilled # {}
  /\ Len(panels) >= 2
  /\ Len(remainingPieces) >= 1

\* C6: in edge-aligned mode every placement touches the top edge or the bottom edge.
C6_EdgeAligned ==
  poignetEnabled =>
    \A v \in PanelViews : \A i \in 1..Len(v.placed) :
      v.placed[i].y = 0 \/ v.placed[i].y + v.placed[i].height = panelHeight

\* A finished edge-aligned run over two panels, back-fill attempted, with a
\* rotated piece in a bottom row.
C6_Witness ==
  /\ pc = "done"
  /\ poignetEnabled
  /\ Len(panels) >= 2
  /\ \E k \in 1..Len(panels) : \E i \in 1..Len(panels[k].placed) :
        panels[k].placed[i].y > 0 /\ panels[k].placed[i].rotated

\* C7 (as claimed): no panel with zero placements appears in the returned list.
C7_NoEmptyPanel ==
  pc = "done" => \A k \in 1..Len(panels) : Len(panels[k].placed) > 0

\* C8: when a new panel is about to be opened and panels exist, the last
\* back-fill sweep visited every panel and placed nothing, and no remaining
\* piece can be placed by the back-fill pass on any existing panel.
C8_BackfillBeforeNewPanel ==
  (pc = "newPanel" /\ ~piecesPlacedInAnyPanel /\ Len(remainingPieces) > 0 /\ Len(panels) > 0)
    => /\ ~madeProgress
       /\ panelIdx = Len(panels)
       /\ \A k \in 1..Len(panels) :
            Len(tryPlaceInExistingPanel(panelWidth, panelHeight, panels[k].placed,
                                        remainingPieces, k - 1, minWasteSize,
                                        poignetEnabled).placed)
              = Len(panels[k].placed)

\* A further panel is about to be opened after an earlier back-fill success.
C8_Witness ==
  /\ pc = "newPanel" /\ ~piecesPlacedInAnyPanel /\ Len(remainingPieces) > 0
  /\ Len(panels) >= 1
  /\ backfilled # {}

FitsEmptyPanel(piece) ==
  \/ piece.width <= panelWidth /\ piece.height <= panelHeight
  \/ piece.rotationAllowed /\ piece.height <= panelWidth /\ piece.width <= panelHeight

\* C9: with the panel cap not reached, a rejected piece fits an empty panel in
\* no allowed orientation.
C9_RejectedOnlyIfTooLarge ==
  (pc = "done" /\ panelIndex <= PanelCap) =>
    \A i \in 1..Len(remainingPieces) : ~FitsEmptyPanel(remainingPieces[i])

\* A finished run that placed a rotated piece and rejected a piece that may be rotated.
C9_Witness ==
  /\ pc = "done"
  /\ \E i \in 1..Len(remainingPieces) : remainingPieces[i].rotationAllowed
  /\ \E k \in 1..Len(panels) : \E i \in 1..Len(panels[k].placed) : panels[k].placed[i].rotated

\* C10 (as claimed): the returned panels list never holds more than the cap of
\* 1000 panels.
C10_AtMostCapPanels == pc = "done" => Len(panels) <= PanelCap

\* C11: with W <= 0 or H <= 0 optimize returns at once, whatever the pieces and
\* options: no panel, no rejected piece, panelCount 0, totalUsedArea 0,
\* usedPercentage 0 and wastePercentage 100.
C11_InvalidPanelEmptyResult ==
  ((panelWidth <= 0 \/ panelHeight <= 0) /\ pc # "start") =>
    /\ pc = "done"
    /\ panels = <<>>
    /\ Result.panels = <<>>
    /\ Result.rejected = <<>>
    /\ Result.stats.panelCount = 0
    /\ Result.stats.totalUsedArea = 0
    /\ Result.stats.usedPercentage = Pct(0)
    /\ Result.stats.wastePercentage = Pct(100)

\* A call with a positive width, a negative height and a piece that is 1 x 1 has returned.
C11_Witness ==
  /\ pc = "done"
  /\ panelWidth > 0 /\ panelHeight < 0
  /\ \E t \in 1..Len(pieces) : pieces[t].width = 1 /\ pieces[t].height = 1

HasInvalidPiece == \E t \in 1..Len(pieces) : pieces[t].width <= 0 \/ pieces[t].height <= 0

\* C12 (as claimed): with positive panel dimensions and a piece type of width
\* <= 0 or height <= 0, the result is empty: no panel, no placement,
\* panelCount 0 and wastePercentage 100.
C12_InvalidPieceEmptyResult ==
  (pc = "done" /\ panelWidth > 0 /\ panelHeight > 0 /\ HasInvalidPiece) =>
    /\ Result.panels = <<>>
    /\ Result.stats.panelCount = 0
    /\ Result.stats.wastePercentage = Pct(100)

\* The piece type a placement was expanded from.
TypeOf(p) == pieces[p.pieceTypeId + 1]

\* C13: a placement marked rotated has the height of its piece type as width
\* and the width as height, a placement not marked rotated has the width and
\* height of its type, and a piece whose rotationAllowed is false is never
\* placed rotated.
C13_Orientation ==
  \A v \in PanelViews : \A i \in 1..Len(v.placed) :
    LET p == v.placed[i]
    IN /\ p.rotated => (p.width = TypeOf(p).height /\ p.height = TypeOf(p).width)
       /\ ~p.rotated => (p.width = TypeOf(p).width /\ p.height = TypeOf(p).height)
       /\ ~TypeOf(p).rotationAllowed => ~p.rotated

\* A result with a rotated placement that is not square and with a piece that
\* may be rotated placed as it came.
C13_Witness ==
  /\ pc = "done"
  /\ \E k \in 1..Len(panels) : \E i \in 1..Len(panels[k].placed) :
        panels[k].placed[i].rotated /\ panels[k].placed[i].width # panels[k].placed[i].height
  /\ \E k \in 1..Len(panels) : \E i \in 1..Len(panels[k].placed) :
        /\ ~panels[k].placed[i].rotated
        /\ TypeOf(panels[k].placed[i]).rotationAllowed
        /\ panels[k].placed[i].width # panels[k].placed[i].height

\* The sum of width * height over the placements i.. of panel k.
RECURSIVE PanelUsedArea(_, _)
PanelUsedArea(k, i) ==
  IF i > Len(panels[k].placed) THEN 0
  ELSE panels[k].placed[i].width * panels[k].placed[i].height + PanelUsedArea(k, i + 1)

\* The sum of width * height over all placements of the panels k.. .
RECURSIVE UsedAreaFrom(_)
UsedAreaFrom(k) == IF k > Len(panels) THEN 0 ELSE PanelUsedArea(k, 1) + UsedAreaFrom(k + 1)

\* C14: in every result totalUsedArea is the sum of width * height over all
\* placements of all panels, totalPanelArea is W * H * panelCount with
\* panelCount the length of the returned panels list, and totalWasteArea is
\* totalPanelArea - totalUsedArea.
C14_AreaAccounting ==
  pc = "done" =>
    /\ Result.stats.panelCount = Len(Result.panels)
    /\ Result.panels = panels
    /\ Result.stats.totalUsedArea = UsedAreaFrom(1)
    /\ Result.stats.totalPanelArea = panelWidth * panelHeight * Result.stats.panelCount
    /\ Result.stats.totalWasteArea
         = Result.stats.totalPanelArea - Result.stats.totalUsedArea

\* A result with two panels that hold placements, one of them back-filled, and
\* with waste left.
C14_Witness ==
  /\ pc = "done"
  /\ Len(panels) >= 2
  /\ backfilled # {}
  /\ \A k \in 1..Len(panels) : Len(panels[k].placed) > 0
  /\ Result.stats.totalWasteArea > 0

\* The id of the first unit of the type at position t.
FirstId(t) == SumQuantity(pieces, 1) - SumQuantity(pieces, t)

\* piece is a unit of some input type: ids run in type order, ascending within a type.
ExpandedUnit(piece) ==
  \E t \in 1..Len(pieces) :
    /\ piece.pieceTypeId = pieces[t].id
    /\ piece.id \in FirstId(t)..(FirstId(t) + pieces[t].quantity - 1)
    /\ piece.width = pieces[t].width /\ piece.height = pieces[t].height
    /\ piece.rotationAllowed = pieces[t].rotationAllowed

\* The canonical order: larger area first, equal areas in expansion order.
Before(a, b) == getArea(a) > getArea(b) \/ (getArea(a) = getArea(b) /\ a.id < b.id)

Canonical(ps) == \A i, j \in 1..Len(ps) : i < j => Before(ps[i], ps[j])

\* The pieces not placed so far: in a pass, those it has given up followed by
\* those it has still to try.
PendingPieces ==
  IF pc \in {"single", "tryPlace"} THEN pass.remainingPieces \o pass.todo ELSE remainingPieces

\* C15: the pieces are one unit per quantity with ids in type order, the list
\* the driver starts from holds all of them in descending order of area with
\* equal areas in expansion order, every pass tries its pieces in that order,
\* and the pieces left over (the rejected list at the return) are always a
\* subsequence of it.
C15_CanonicalOrder ==
  pc # "start" =>
    /\ \A i \in 1..Len(PendingPieces) : ExpandedUnit(PendingPieces[i])
    /\ Canonical(PendingPieces)
    /\ Canonical(remainingPieces)
    /\ (pc = "outer" /\ panels = <<>>) => Len(remainingPieces) = SumQuantity(pieces, 1)

\* A result whose rejected list holds a piece of a later type before a piece of
\* an earlier type, and two pieces of equal area.
C15_Witness ==
  /\ pc = "done"
  /\ \E i, j \in 1..Len(remainingPieces) :
        i < j /\ remainingPieces[i].id > remainingPieces[j].id
  /\ \E i, j \in 1..Len(remainingPieces) :
        i < j /\ getArea(remainingPieces[i]) = getArea(remainingPieces[j])

\* What optimize returns, as a function of the values of its arguments.
ReturnOf(pw, ph, types, mws, poignet) ==
  IF pw <= 0 \/ ph <= 0
  THEN [panels |-> <<>>, rejected |-> <<>>, stats |-> EmptyStats(mws)]
  ELSE [panels |-> optimize(pw, ph, types, mws, poignet).panels,
        rejected |-> optimize(pw, ph, types, mws, poignet).remainingPieces,
        stats |-> Stats(pw, ph, optimize(pw, ph, types, mws, poignet).panels, mws)]

C17_PanelIndex ==
  /\ \A k \in 1..Len(panels) :
        /\ panels[k].panelIndex = k - 1
        /\ \A i \in 1..Len(panels[k].placed) : panels[k].placed[i].panelIndex = k - 1
  /\ pc = "tryPlace" =>
        \A i \in 1..Len(pass.placed) : pass.placed[i].panelIndex = panelIdx
  /\ pc = "single" =>
        (panelIndex = Len(panels)
         /\ \A i \in 1..Len(pass.placed) : pass.placed[i].panelIndex = panelIndex)

\* A result in which a panel that is not the last one was back-filled.
C17_Witness ==
  /\ pc = "done"
  /\ \E k \in backfilled : k + 1 < Len(panels) /\ Len(panels[k + 1].placed) >= 2

\* The lexicographic order (y, x, leftover area); the leftover areas of two
\* rectangles for one piece compare as their areas.
LexLess(a, b) ==
  \/ a.y < b.y
  \/ a.y = b.y /\ a.x < b.x
  \/ a.y = b.y /\ a.x = b.x /\ getArea(a) < getArea(b)

Containing(freeRects, width, height) ==
  {i \in 1..Len(freeRects) : canContain(freeRects[i], width, height)}

LexFirst(freeRects, S) ==
  CHOOSE i \in S : \A j \in S \ {i} :
    \/ LexLess(freeRects[i], freeRects[j])
    \/ ~LexLess(freeRects[j], freeRects[i]) /\ i < j

\* C18: in free mode findBestFit returns the rectangle that is minimal in the
\* lexicographic order (y, x, leftover area) among the rectangles that can
\* contain the piece, the first one in collection order on ties, and returns
\* no fit exactly when no rectangle can contain the piece.
C18_LexicographicFit ==
  (pc = "returned" /\ probe.op = "findBestFit") =>
    /\ probe.out.found <=>
         Containing(probe.freeRects, probe.piece.width, probe.piece.height) # {}
    /\ probe.out.found =>
         probe.out.sourceIdx =
           LexFirst(probe.freeRects,
                    Containing(probe.freeRects, probe.piece.width, probe.piece.height))

\* Some free rectangle gives the oriented piece a sequential or a flexible
\* position in the top row.
TopCandidate(freeRects, width, height, pw, ph, topRowX) ==
  /\ height <= ph
  /\ width <= pw
  /\ \E i \in 1..Len(freeRects) :
       LET r == freeRects[i]
           x == Max(r.x, topRowX)
       IN /\ r.y <= 0
          /\ r.y + r.height >= height
          /\ canContain(r, width, height)
          /\ \/ r.x <= topRowX /\ r.x + r.width >= topRowX + width /\ topRowX + width <= pw
             \/ x + width <= Min(r.x + r.width, pw)

SomeTopCandidate ==
  \/ TopCandidate(probe.freeRects, probe.piece.width, probe.piece.height,
                  probe.pw, probe.ph, probe.topRowX)
  \/ /\ probe.piece.rotationAllowed
     /\ TopCandidate(probe.freeRects, probe.piece.height, probe.piece.width,
                     probe.pw, probe.ph, probe.topRowX)

\* C19: in edge-aligned mode, if the piece has a top-row candidate in at least
\* one allowed orientation then it is placed in the top row (y = 0); a
\* bottom-row placement is chosen only when no allowed orientation has a
\* top-row candidate.
C19_TopRowPreferred ==
  (pc = "returned" /\ probe.op = "FindFit") =>
    /\ SomeTopCandidate => (probe.out.found /\ probe.out.row = "top" /\ probe.out.rect.y = 0)
    /\ (probe.out.found /\ probe.out.row = "bottom") => ~SomeTopCandidate

RectSet(freeRects) == {freeRects[i] : i \in 1..Len(freeRects)}

\* tryPlaceInExistingPanel runs on panels[panelIdx] and has placed nothing yet.
BackfillSearching ==
  /\ pc = "tryPlace"
  /\ Len(pass.placed) = Len(panels[panelIdx + 1].placed)

\* The rectangles searched are the recorded ones.
C20_SearchesRecorded ==
  BackfillSearching => RectSet(pass.freeRects) = RectSet(panels[panelIdx + 1].freeRects)

\* The next piece fits the searched rectangles only if it fits the recorded ones.
C20_NoFitNoBackfill ==
  (BackfillSearching /\ pass.todo # <<>>) =>
    (FindFit(pass.freeRects, Head(pass.todo), panelWidth, panelHeight,
             pass.topRowX, pass.bottomRowX, poignetEnabled).bestFit.found
       => FindFit(panels[panelIdx + 1].freeRects, Head(pass.todo), panelWidth, panelHeight,
                  pass.topRowX, pass.bottomRowX, poignetEnabled).bestFit.found)

\* C20: when the back-fill pass attempts a panel, the free rectangles it
\* searches are the freeRects recorded for that panel after its last
\* placement; consequently a piece that finds no fit against the recorded free
\* rectangles is not placed on that panel by the back-fill attempt.
C20_BackfillUsesRecordedFreeRects == C20_SearchesRecorded /\ C20_NoFitNoBackfill

\* The placement a pass has just appended to its list.
LastPlaced(st) == st.placed[Len(st.placed)]

\* A step of a placement loop, of either pass, that places a piece.
PlacementStep ==
  /\ pc \in {"single", "tryPlace"}
  /\ pc' = pc
  /\ Len(pass'.placed) = Len(pass.placed) + 1

SubtractInput ==
  IF poignetEnabled THEN pass.freeRects
  ELSE LET usedIdx == FindFit(pass.freeRects, Head(pass.todo), panelWidth, panelHeight,
                              pass.topRowX, pass.bottomRowX, poignetEnabled).bestFit.sourceIdx
           placedRect == LastPlaced(pass')
       IN RemoveAt(pass.freeRects, usedIdx)
            \o splitRectangle(pass.freeRects[usedIdx], placedRect.x, placedRect.y,
                              placedRect.width, placedRect.height, minWasteSize)

\* C22: removeOverlappingFreeRects keeps every free rectangle that does not
\* overlap the placed rectangle in its output, whatever its size and whatever
\* minWasteSize is.
C22_SubtractKeepsNonOverlapping ==
  [][PlacementStep =>
       \A i \in 1..Len(SubtractInput) :
         ~overlaps(SubtractInput[i], AsRect(LastPlaced(pass'))) =>
           SubtractInput[i] \in RectSet(removeOverlappingFreeRects(
                                          SubtractInput, LastPlaced(pass'), minWasteSize))]_vars

\* C23 (as claimed): for every free rectangle that overlaps the placed
\* rectangle, the (up to four) sub-rectangles by which
\* removeOverlappingFreeRects replaces it are pairwise non-overlapping.
C23_SubtractResidualsDisjoint ==
  [][PlacementStep =>
       \A i \in 1..Len(SubtractInput) :
         overlaps(SubtractInput[i], AsRect(LastPlaced(pass'))) =>
           \E subs \in {SubtractOne(SubtractInput[i], LastPlaced(pass'), minWasteSize)} :
             \A a, b \in 1..Len(subs) : a < b => ~overlaps(subs[a], subs[b])]_vars

\* r lies within the rectangle f.
Within(r, f) ==
  /\ f.x <= r.x
  /\ f.y <= r.y
  /\ r.x + r.width <= f.x + f.width
  /\ r.y + r.height <= f.y + f.height

\* C23 (amended): for every free rectangle that overlaps the placed rectangle,
\* each of the (up to four) sub-rectangles by which removeOverlappingFreeRects
\* replaces it lies within the free rectangle and does not overlap the placed
\* rectangle; no sub-rectangle appears twice.
C23_SubtractResidualsClear ==
  [][PlacementStep =>
       \A i \in 1..Len(SubtractInput) :
         overlaps(SubtractInput[i], AsRect(LastPlaced(pass'))) =>
           \E subs \in {SubtractOne(SubtractInput[i], LastPlaced(pass'), minWasteSize)} :
             /\ Len(subs) <= 4
             /\ \A a \in 1..Len(subs) :
                  /\ Within(subs[a], SubtractInput[i])
                  /\ ~overlaps(subs[a], AsRect(LastPlaced(pass')))
                  /\ subs[a].width > 0 /\ subs[a].height > 0
             /\ \A a, b \in 1..Len(subs) : a < b => subs[a] # subs[b]]_vars

\* A pass has just placed a piece and two of the sub-rectangles the subtraction
\* left overlap each other.
C23_Witness ==
  /\ pc \in {"single", "tryPlace"}
  /\ Len(pass.placed) >= 1
  /\ \E a, b \in 1..Len(pass.freeRects) :
       /\ a < b
       /\ overlaps(pass.freeRects[a], pass.freeRects[b])
       /\ ~overlaps(pass.freeRects[a], AsRect(LastPlaced(pass)))
       /\ ~overlaps(pass.freeRects[b], AsRect(LastPlaced(pass)))

\* Two rectangles share a full edge exactly.
MergeEligible(a, b) ==
  \/ /\ a.height = b.height
     /\ a.y = b.y
     /\ (a.x + a.width = b.x \/ b.x + b.width = a.x)
  \/ /\ a.width = b.width
     /\ a.x = b.x
     /\ (a.y + a.height = b.y \/ b.y + b.height = a.y)

\* C24: the output of mergeRectangles is a fixpoint for every input
\* collection: it contains no two rectangles that share a full edge exactly,
\* and applying mergeRectangles to it changes nothing.
C24_MergeFixpoint ==
  (pc = "returned" /\ probe.op = "mergeRectangles") =>
    /\ \A a, b \in 1..Len(probe.rects) :
         a < b => ~MergeEligible(probe.rects[a], probe.rects[b])
    /\ mergeRectangles(probe.rects) = probe.rects

\* The number of times the rectangle r appears in the collection.
Count(freeRects, r) == Cardinality({i \in 1..Len(freeRects) : freeRects[i] = r})

\* The two collections hold the same rectangles the same number of times.
SameRects(f, g) ==
  /\ Len(f) = Len(g)
  /\ \A i \in 1..Len(f) : Count(f, f[i]) = Count(g, f[i])

\* C25: mergeRectangles is independent of the order of its input: for every
\* collection and every permutation of it the two outputs hold the same
\* rectangles, up to reordering.
C25_MergeOrderIndependent ==
  (pc = "returned" /\ probe.op = "mergeRectangles") =>
    \A pi \in Permutations(1..Len(probe.freeRects)) :
      SameRects(mergeRectangles([i \in 1..Len(probe.freeRects) |-> probe.freeRects[pi[i]]]),
                probe.rects)

\* The free rectangle the step that places a piece has chosen.
UsedFreeRect ==
  pass.freeRects[FindFit(pass.freeRects, Head(pass.todo), panelWidth, panelHeight,
                         pass.topRowX, pass.bottomRowX, poignetEnabled).bestFit.sourceIdx]

\* The residuals as the claim lists them: right strip, bottom strip of placed
\* width, bottom-left corner, each whenever its stated dimensions are positive.
StripsOf(u, p) ==
  (IF u.x + u.width - (p.x + p.width) > 0
   THEN <<Rectangle(p.x + p.width, u.y, u.x + u.width - (p.x + p.width), u.height)>>
   ELSE <<>>)
  \o
  (IF u.y + u.height - (p.y + p.height) > 0
   THEN <<Rectangle(p.x, p.y + p.height, p.width, u.y + u.height - (p.y + p.height))>>
   ELSE <<>>)
  \o
  (IF p.x - u.x > 0 /\ u.y + u.height - (p.y + p.height) > 0
   THEN <<Rectangle(u.x, p.y + p.height, p.x - u.x, u.y + u.height - (p.y + p.height))>>
   ELSE <<>>)

\* C26: splitRectangle returns, in this order, the right strip whenever its
\* width is > 0, the bottom strip of placed width whenever its height is > 0
\* and the bottom-left corner whenever both of its dimensions are > 0, and
\* nothing else.
C26_SplitStrips ==
  [][(~poignetEnabled /\ PlacementStep) =>
       splitRectangle(UsedFreeRect, LastPlaced(pass').x, LastPlaced(pass').y,
                      LastPlaced(pass').width, LastPlaced(pass').height, minWasteSize)
         = StripsOf(UsedFreeRect, LastPlaced(pass'))]_vars

\* An iteration of the outer loop that comes back to the loop's test has fewer
\* remaining pieces than it started with.
OuterIterationShrinks ==
  [][(pc = "progress" /\ pc' = "outer") => Len(remainingPieces) < previousRemainingCount]_vars

\* A back-fill sweep starts only with madeProgress set: it is the first sweep of
\* the outer iteration, or a sweep of this iteration has placed a piece.
SweepAfterProgress ==
  [][(pc = "while" /\ pc' = "for") =>
       /\ madeProgress
       /\ \/ piecesPlacedInAnyPanel /\ Len(remainingPieces) < previousRemainingCount
          \/ ~piecesPlacedInAnyPanel /\ Len(remainingPieces) = previousRemainingCount]_vars

\* Each outer iteration after the first starts with fewer remaining pieces than
\* the one before it, and the first starts with the expanded pieces.
OuterIterationsBounded ==
  [][(pc = "outer" /\ pc' = "while") =>
       IF panels = <<>>
       THEN previousRemainingCount' = Len(expandPieces(pieces))
       ELSE previousRemainingCount' < previousRemainingCount]_vars

\* C27: optimize terminates on every finite input: every iteration of the outer
\* loop leaves the loop or strictly decreases the number of remaining pieces, a
\* back-fill sweep is repeated only after a sweep that placed a piece, and the
\* number of remaining pieces at the start of the outer iterations strictly
\* decreases from the number of expanded pieces.
C27_Terminates ==
  /\ <>(pc = "done")
  /\ OuterIterationShrinks
  /\ SweepAfterProgress
  /\ OuterIterationsBounded

\* optimize has returned after a run in which a back-fill sweep placed a piece
\* and a later outer iteration opened a further panel.
C27_Witness ==
  /\ pc = "done"
  /\ backfilled # {}
  /\ Len(panels) >= 2
  /\ remainingPieces = <<>>

\* C28: in every result, usableWasteArea (the summed areas of all free
\* rectangles of all panels) is at most totalWasteArea (total panel area minus
\* total placed area).
C28_UsableWithinWaste ==
  pc = "done" => Result.stats.usableWasteArea <= Result.stats.totalWasteArea

\* The panels list holds a panel that back-fill has not modified.
NewPanelOnly(k) == k \in 1..Len(panels) /\ (k - 1) \notin backfilled

\* C29: in free mode, on a panel filled only by the new-panel pass, the free
\* rectangles are pairwise non-overlapping after every placement: the placement
\* is at the top-left corner of the chosen rectangle, the split residuals are
\* disjoint, and no other free rectangle is cut by the subtraction.
C29_FreeModeDisjoint ==
  /\ []((~poignetEnabled /\ pc = "single") => PairwiseDisjoint(pass.freeRects))
  /\ [](~poignetEnabled => \A k \in 1..Len(panels) :
                              NewPanelOnly(k) => PairwiseDisjoint(panels[k].freeRects))
  /\ [][(PlacementStep /\ pc = "single" /\ ~poignetEnabled) =>
         /\ LastPlaced(pass').x = UsedFreeRect.x
         /\ LastPlaced(pass').y = UsedFreeRect.y
         /\ PairwiseDisjoint(splitRectangle(UsedFreeRect, LastPlaced(pass').x,
                                            LastPlaced(pass').y, LastPlaced(pass').width,
                                            LastPlaced(pass').height, minWasteSize))
         /\ \A i \in 1..Len(SubtractInput) :
              ~overlaps(SubtractInput[i], AsRect(LastPlaced(pass')))
         /\ PairwiseDisjoint(pass'.freeRects)]_vars

\* A free-mode new-panel pass has placed a second piece and holds at least two
\* free rectangles, one of them a residual of the last split.
C29_Witness ==
  /\ ~poignetEnabled
  /\ pc = "single"
  /\ Len(pass.placed) >= 2
  /\ Len(pass.freeRects) >= 2
  /\ \E i \in 1..Len(pass.freeRects) :
       pass.freeRects[i].x = LastPlaced(pass).x + LastPlaced(pass).width

\* The sequence a is the beginning of the sequence b.
IsPrefix(a, b) == Len(a) <= Len(b) /\ SubSeq(b, 1, Len(a)) = a

\* A back-fill attempt on the panel at panelIdx returns to the driver.
BackfillAttemptEnds == pc = "tryPlace" /\ pc' = "for"

\* C30: placements are never moved or removed once made: a back-fill attempt
\* that places no piece leaves the panel's placements, its free rectangles and
\* the remaining-piece list unchanged, and one that places pieces keeps the
\* panel's earlier placements as a prefix of its placement list and only
\* appends new ones.
C30_PlacementsKept ==
  [][/\ Len(panels') >= Len(panels)
     /\ \A k \in 1..Len(panels) : IsPrefix(panels[k].placed, panels'[k].placed)
     /\ BackfillAttemptEnds =>
          /\ IsPrefix(panels[panelIdx + 1].placed, pass.placed)
          /\ IF Len(pass.placed) = Len(panels[panelIdx + 1].placed)
             THEN /\ panels' = panels
                  /\ remainingPieces' = remainingPieces
             ELSE /\ panels'[panelIdx + 1].placed = pass.placed
                  /\ Len(remainingPieces') < Len(remainingPieces)
                  /\ \A k \in 1..Len(panels) : k # panelIdx + 1 => panels'[k] = panels[k]]_vars

\* Both kinds of attempt have ended in the run: an attempt of an earlier sweep
\* placed a piece on a panel, and the attempts of the current sweep so far, one
\* at least, placed none.
C30_Witness ==
  /\ pc = "for"
  /\ panelIdx >= 1
  /\ backfilled # {}
  /\ ~madeProgress

====
